---- MODULE Spec2Model ----
(***************************************************************************)
(* Session / token lifecycle of rahulcodepython/todo-backend.              *)
(*                                                                         *)
(* The repository holds several generations of the same program.  A run    *)
(* of the model fixes one generation (variable build) at start-up:         *)
(*   "v1"  apps/todos/sql.go controllers, unnamed/part_022 Authenticated,  *)
(*         router unnamed/part_025 (the profile handler loads the user)    *)
(*   "v2"  apps/users/controllers.go controllers, unnamed/part_016         *)
(*         Authenticated, backend/middleware/user.go AuthenticatedUser,    *)
(*         router unnamed/part_015                                         *)
(*   "v3"  unnamed/part_010 controllers, apps/users/auth_middleware.go     *)
(*         AuthMiddleware, routes unnamed/part_009, recover middleware     *)
(* Every request runs on its own goroutine; one action is one blocking     *)
(* store round trip of one request together with the pure code around it.  *)
(*                                                                         *)
(* Spec is the session lifecycle (register, login, logout, validation).    *)
(* TodoSpec is the todo handlers of "v2" (apps/todos/controller.go) and    *)
(* "v3" (unnamed/part_021), run for subjects that the middleware chain of  *)
(* Spec has resolved.                                                      *)
(***************************************************************************)
EXTENDS Integers, Sequences, FiniteSets, TLC

\* ---------------------------------------------------------------- bounds
NumReqs == 2
MaxTime == 3
MaxUsers == 2
MaxJWTs == 2
\* cfg.JWT.Expires, in clock ticks
Expires == 2
\* todo requests served at a time, and todo rows ever created
NumCalls == 2
MaxTodos == 2

Reqs == 1..NumReqs
TodoReqs == 1..NumCalls
Builds == {"v1", "v2", "v3"}

\* request bodies: complete ones, and ones with a field left empty
RegisterBodies ==
    {[name |-> "Ann", email |-> e, password |-> "secret1"] : e \in {"a@x.com", "b@x.com"}}
    \cup {[name |-> "", email |-> "a@x.com", password |-> "secret1"]}

LoginBodies ==
    {[email |-> "a@x.com", password |-> p] : p \in {"secret1", "secret2", ""}}
    \cup {[email |-> "b@x.com", password |-> "secret1"],
          [email |-> "", password |-> "secret1"]}

\* ------------------------------------------------------- strings, errors
\* A string is a sequence of character codes.  The words "Bearer" and
\* "Token" and every signed token are one code each; 0 is the space.
Bearer == <<-1>>
TokenWord == <<-2>>
Space == <<0>>
EmptyString == <<>>

NilErr == "nil"
ErrNoRows == "sql: no rows in result set"
ErrStore == "store error"

\* strings.Split(s, " "): n separators give n+1 parts, "" gives [""].
RECURSIVE SplitFrom(_, _, _)
SplitFrom(s, i, cur) ==
    IF i > Len(s) THEN <<cur>>
    ELSE IF s[i] = Space[1] THEN <<cur>> \o SplitFrom(s, i + 1, <<>>)
    ELSE SplitFrom(s, i + 1, Append(cur, s[i]))

Split(s) == SplitFrom(s, 1, <<>>)

\* strings.TrimPrefix(s, prefix)
TrimPrefix(s, prefix) ==
    IF Len(s) >= Len(prefix) /\ SubSeq(s, 1, Len(prefix)) = prefix
    THEN SubSeq(s, Len(prefix) + 1, Len(s))
    ELSE s

\* time.Time.Before / time.Time.After
BeforeOrEqual(t, u) == t <= u

BeforeSwapped(t, u) == u < t

Before(t, u) == t < u
After(t, u) == t > u

\* bcrypt digest of a secret, and its verification
EncryptPassword(p) == <<"bcrypt", p>>
CompareEncryptedPassword(digest, p) == digest = EncryptPassword(p)

\* HS256 signature over the claims {user_id, exp, iat}: the token string is
\* a function of the subject and the issuing second (exp = iat + Expires).
CreateTokenBackdated(userId, t) ==
    [Token |-> <<userId * 100 + t + 1>>, ExpiresAt |-> t - Expires]

CreateToken(userId, t) ==
    [Token |-> <<userId * 100 + t + 1>>, ExpiresAt |-> t + Expires]

\* the user_id claim carried by a token string
TokenSubject(tok) ==
    IF Len(tok) = 1 /\ tok[1] > 0 THEN (tok[1] - 1) \div 100 ELSE 0

\* -------------------------------------------------------------- state
VARIABLES build, now, users, jwt_tokens, nextUserId, nextJWTId, held, revoked, reqs,
          todos, nextTodoId, calls

\* the todo table and the todo requests being served
todoVars == <<todos, nextTodoId, calls>>

vars == <<build, now, users, jwt_tokens, nextUserId, nextJWTId, held, revoked, reqs,
          todoVars>>

NoJWT == [id |-> 0, token |-> EmptyString, expires_at |-> 0, user_id |-> 0]
NoUser == [id |-> 0, email |-> "", password |-> <<"none", "">>, jwt |-> 0]

IdleReq ==
    [route |-> "none", pc |-> "idle", hdr |-> EmptyString,
     name |-> "", email |-> "", password |-> "",
     bearer |-> EmptyString, jwt |-> NoJWT, oldJWTId |-> 0, user |-> NoUser,
     queried |-> FALSE, atExpiry |-> FALSE, live |-> FALSE, resolved |-> FALSE, fault |-> FALSE,
     status |-> 0, msg |-> "", token |-> EmptyString]

\* a todo request: the resolved subject's id (c.Locals "user"), the :id
\* parameter and the body
IdleCall ==
    [op |-> "none", pc |-> "idle", user |-> 0, id |-> 0, title |-> "",
     completed |-> FALSE, status |-> 0, msg |-> ""]

Terminal(q) == q.pc \in {"done", "panic", "aborted"}
InFlight(q) == q.pc # "idle" /\ ~Terminal(q)

\* no response is waiting to be written
Quiet == \A s \in Reqs : ~Terminal(reqs[s])

\* recover.New() is installed only by SetupMiddleware (v3)
Recovers == build = "v3"

Init ==
    /\ build \in Builds
    /\ now = 0
    /\ users = {}
    /\ jwt_tokens = {}
    /\ nextUserId = 1
    /\ nextJWTId = 1
    /\ held = {}
    /\ revoked = {}
    /\ reqs = [r \in Reqs |-> IdleReq]
    /\ todos = {}
    /\ nextTodoId = 1
    /\ calls = [c \in TodoReqs |-> IdleCall]

\* ------------------------------------------------------------ responses
Respond(q, status, message) ==
    [q EXCEPT !.pc = "done", !.status = status, !.msg = message]

\* A panic unwinds the request goroutine.  With recover.New() installed it
\* becomes a 500 response; without it the fasthttp worker takes the whole
\* process down, and no response is written.
Panic(q) ==
    IF Recovers THEN Respond(q, 500, "recovered panic")
    ELSE [q EXCEPT !.pc = "panic"]

\* response.* helpers: each reads err.Error(), which panics on a nil error
InternelServerError(q, err, message) ==
    IF err = NilErr THEN Panic(q) ELSE Respond(q, 500, message)

UnauthorizedAccess(q, err, message) ==
    IF err = NilErr THEN Panic(q) ELSE Respond(q, 401, message)

NotFound(q, err, message) ==
    IF err = NilErr THEN Panic(q) ELSE Respond(q, 404, message)

BadResponse(q, message) == Respond(q, 400, message)

OKResponse(q, message) == Respond(q, 200, message)

\* The request r moves to q; a process crash aborts the other requests.
Commit(r, q) ==
    reqs' = [s \in Reqs |->
                IF s = r THEN q
                ELSE IF q.pc = "panic" /\ InFlight(reqs[s])
                     THEN [reqs[s] EXCEPT !.pc = "aborted"]
                     ELSE reqs[s]]

\* a store call that failed ends the request with this record
Faulted(q) == [q EXCEPT !.fault = TRUE]

\* The responses are written and the finished requests leave the server.
Deliver ==
    /\ ~Quiet
    /\ reqs' = [s \in Reqs |-> IF Terminal(reqs[s]) THEN IdleReq ELSE reqs[s]]
    /\ UNCHANGED <<todoVars, build, now, users, jwt_tokens, nextUserId, nextJWTId, held, revoked>>

\* ------------------------------------------------------- store queries
\* db.QueryRow(...).Scan(...): err is nil, sql.ErrNoRows or a store error.
QueryRowJWTByTokenAnyRow(tok, fail) ==
    IF fail THEN [err |-> ErrStore, row |-> NoJWT]
    ELSE IF jwt_tokens # {}
         THEN [err |-> NilErr, row |-> CHOOSE j \in jwt_tokens : TRUE]
         ELSE [err |-> ErrNoRows, row |-> NoJWT]

QueryRowJWTByToken(tok, fail) ==
    IF fail THEN [err |-> ErrStore, row |-> NoJWT]
    ELSE IF \E j \in jwt_tokens : j.token = tok
         THEN [err |-> NilErr, row |-> CHOOSE j \in jwt_tokens : j.token = tok]
         ELSE [err |-> ErrNoRows, row |-> NoJWT]

QueryRowJWTById(id, fail) ==
    IF fail THEN [err |-> ErrStore, row |-> NoJWT]
    ELSE IF \E j \in jwt_tokens : j.id = id
         THEN [err |-> NilErr, row |-> CHOOSE j \in jwt_tokens : j.id = id]
         ELSE [err |-> ErrNoRows, row |-> NoJWT]

QueryRowUserByEmail(email, fail) ==
    IF fail THEN [err |-> ErrStore, row |-> NoUser]
    ELSE IF \E u \in users : u.email = email
         THEN [err |-> NilErr, row |-> CHOOSE u \in users : u.email = email]
         ELSE [err |-> ErrNoRows, row |-> NoUser]

QueryRowUserByJWT(id, fail) ==
    IF fail THEN [err |-> ErrStore, row |-> NoUser]
    ELSE IF \E u \in users : u.jwt = id
         THEN [err |-> NilErr, row |-> CHOOSE u \in users : u.jwt = id]
         ELSE [err |-> ErrNoRows, row |-> NoUser]

QueryRowUserById(id, fail) ==
    IF fail THEN [err |-> ErrStore, row |-> NoUser]
    ELSE IF \E u \in users : u.id = id
         THEN [err |-> NilErr, row |-> CHOOSE u \in users : u.id = id]
         ELSE [err |-> ErrNoRows, row |-> NoUser]

\* users u JOIN jwt_tokens j ON u.jwt = j.id WHERE u.id = $1
QueryRowUserLoginInfo(userId, fail) ==
    LET joined == {j \in jwt_tokens : \E u \in users : u.id = userId /\ u.jwt = j.id} IN
    IF fail THEN [err |-> ErrStore, row |-> NoJWT]
    ELSE IF joined # {}
         THEN [err |-> NilErr, row |-> CHOOSE j \in joined : TRUE]
         ELSE [err |-> ErrNoRows, row |-> NoJWT]

CountUsersByEmail(email) == Cardinality({u \in users : u.email = email})

\* ---------------------------------------------------- store statements
\* a DELETE without its WHERE clause
DeleteJWTEveryRow(id) ==
    /\ jwt_tokens' = {}
    /\ users' = {[u EXCEPT !.jwt = 0] : u \in users}

\* DELETE FROM jwt_tokens WHERE id = $1; users.jwt is ON DELETE SET NULL
DeleteJWTById(id) ==
    /\ jwt_tokens' = {j \in jwt_tokens : j.id # id}
    /\ users' = {IF u.jwt = id /\ id # 0 THEN [u EXCEPT !.jwt = 0] ELSE u : u \in users}

\* DELETE FROM jwt_tokens WHERE token = $1 (v3: no column refers to the row)
DeleteJWTByToken(tok) ==
    /\ jwt_tokens' = {j \in jwt_tokens : j.token # tok}
    /\ UNCHANGED users

\* jwt_tokens.id is the primary key, jwt_tokens.token is UNIQUE
JWTInsertable(id, tok) ==
    \A j \in jwt_tokens : j.id # id /\ j.token # tok

UserInsertableById(id, email) ==
    \A u \in users : u.id # id

\* users.id is the primary key, users.email is UNIQUE
UserInsertable(id, email) ==
    \A u \in users : u.id # id /\ u.email # email

\* users.jwt REFERENCES jwt_tokens(id): NULL or an existing row
JWTReferable(id) ==
    id = 0 \/ \E j \in jwt_tokens : j.id = id

\* WITH new_token AS (INSERT INTO jwt_tokens ...) UPDATE users SET jwt = ...
CreateNewJWT_UpdateUserRowQuery(id, tok, exp, userId) ==
    /\ jwt_tokens' = jwt_tokens \cup
            {[id |-> id, token |-> tok, expires_at |-> exp, user_id |-> 0]}
    /\ users' = {IF u.id = userId THEN [u EXCEPT !.jwt = id] ELSE u : u \in users}

\* ------------------------------------------------------------ the clock
Tick ==
    /\ Quiet
    /\ now < MaxTime
    /\ now' = now + 1
    /\ UNCHANGED <<todoVars, build, users, jwt_tokens, nextUserId, nextJWTId, held, revoked, reqs>>

\* ----------------------------------------------------- inbound requests
\* Tokens a client can present: the ones a successful register or login has
\* returned (held), whether or not their session still exists, and one that
\* was never issued.  revoked are the held tokens a logout has deleted.
ForeignToken == <<1>>
PresentableTokens == held \cup {ForeignToken}

Headers ==
    {EmptyString, Bearer, Bearer \o Space,
     TokenWord \o Space \o ForeignToken,
     Bearer \o Space \o ForeignToken \o Space \o ForeignToken}
    \cup {Bearer \o Space \o t : t \in PresentableTokens}

ProtectedRoutes == {"logout", "profile"}

\* GET /auth/logout or /auth/profile arriving with an Authorization header
Arrive(r, route, hdr) ==
    [IdleReq EXCEPT !.route = route, !.pc = "auth", !.hdr = hdr]

AfterAuthSkipsResolver(route) == route

\* the handler that follows the auth middleware in the route's chain
AfterAuth(route) ==
    IF build = "v2" /\ route = "profile" THEN "resolve" ELSE route

\* ------------------------------------------------- v1: session validator
\* unnamed/part_022 Authenticated: header checks, then the token lookup.
\* The two parts of the header are indexed before the scheme is compared.
Authenticated022(r) ==
    /\ build = "v1"
    /\ Quiet
    /\ reqs[r].pc = "idle"
    /\ UNCHANGED <<todoVars, build, now, users, jwt_tokens, nextUserId, nextJWTId, held, revoked>>
    /\ \E route \in ProtectedRoutes, hdr \in Headers :
       LET q == Arrive(r, route, hdr)
           authorizationParts == Split(hdr)
       IN
       IF hdr = EmptyString
       THEN Commit(r, Respond(q, 401, "Unauthorized Access"))
       ELSE IF Len(authorizationParts) < 2
       THEN Commit(r, Panic(q))
       ELSE IF authorizationParts[1] # Bearer
       THEN Commit(r, Respond(q, 401, "Unauthorized Access"))
       ELSE \E fail \in BOOLEAN :
            LET res == QueryRowJWTByToken(authorizationParts[2], fail)
                count == IF res.err = NilErr THEN 1 ELSE 0
                q1 == [q EXCEPT !.bearer = authorizationParts[2], !.queried = TRUE,
                                !.fault = fail]
            IN
            IF res.err # NilErr
            THEN Commit(r, Respond(q1, 500, "Internal Server Error"))
            ELSE IF count = 0
            THEN Commit(r, Respond(q1, 401, "Unauthorized Access"))
            ELSE IF Before(res.row.expires_at, now)
            THEN Commit(r, [q1 EXCEPT !.pc = "auth_delete", !.jwt = res.row])
            ELSE Commit(r, [q1 EXCEPT !.pc = AfterAuth(route), !.jwt = res.row,
                                      !.live = TRUE,
                                      !.atExpiry = (res.row.expires_at = now)])

\* unnamed/part_022 Authenticated: the delete of an expired token
Authenticated022Delete(r) ==
    LET q == reqs[r] IN
    /\ build = "v1"
    /\ Quiet
    /\ q.pc = "auth_delete"
    /\ UNCHANGED <<todoVars, build, now, nextUserId, nextJWTId, held, revoked>>
    /\ \E fail \in BOOLEAN :
          IF fail
          THEN /\ Commit(r, Respond(Faulted(q), 500, "Internal Server Error"))
               /\ UNCHANGED <<users, jwt_tokens>>
          ELSE /\ DeleteJWTById(q.jwt.id)
               /\ Commit(r, Respond(q, 401, "Token has expired. Please login again."))

\* ---------------------------------------------------- v1: controllers
\* apps/todos/sql.go RegisterUserController: field check and the count
\* pre-check on the email
RegisterUserControllerV1(r) ==
    /\ build = "v1"
    /\ Quiet
    /\ reqs[r].pc = "idle"
    /\ UNCHANGED <<todoVars, build, now, users, jwt_tokens, nextUserId, nextJWTId, held, revoked>>
    /\ \E body \in RegisterBodies :
       LET q == [IdleReq EXCEPT !.route = "register", !.name = body.name,
                                !.email = body.email, !.password = body.password]
       IN
       IF body.name = "" \/ body.email = "" \/ body.password = ""
       THEN Commit(r, Respond(q, 400, "All fields are required"))
       ELSE \E fail \in BOOLEAN :
            IF fail
            THEN Commit(r, Respond(Faulted(q), 500, "Error checking unique email"))
            ELSE IF CountUsersByEmail(body.email) > 0
            THEN Commit(r, Respond(q, 406, "This email already is ready used. Try something new!"))
            ELSE Commit(r, [q EXCEPT !.pc = "reg_jwt"])

\* apps/todos/sql.go RegisterUserController: the session row is inserted
\* first, for the user id generated in the handler
RegisterUserControllerV1JWT(r) ==
    LET q == reqs[r]
        userId == nextUserId
        jwtToken == CreateToken(userId, now)
        tokenId == nextJWTId
        jwt == [id |-> tokenId, token |-> jwtToken.Token,
                expires_at |-> jwtToken.ExpiresAt, user_id |-> 0]
        user == [id |-> userId, email |-> q.email,
                 password |-> EncryptPassword(q.password), jwt |-> tokenId]
    IN
    /\ build = "v1"
    /\ Quiet
    /\ q.pc = "reg_jwt"
    /\ nextUserId <= MaxUsers
    /\ nextJWTId <= MaxJWTs
    /\ UNCHANGED <<todoVars, build, now, users, held, revoked>>
    /\ \E fail \in BOOLEAN :
          IF fail \/ ~JWTInsertable(jwt.id, jwt.token)
          THEN /\ Commit(r, Respond([q EXCEPT !.fault = fail], 500,
                                    "Error creating JWT token"))
               /\ UNCHANGED <<jwt_tokens, nextUserId, nextJWTId>>
          ELSE /\ jwt_tokens' = jwt_tokens \cup {jwt}
               /\ nextUserId' = nextUserId + 1
               /\ nextJWTId' = nextJWTId + 1
               /\ Commit(r, [q EXCEPT !.pc = "reg_user", !.user = user, !.jwt = jwt])

\* apps/todos/sql.go RegisterUserController: the user insert, whose jwt
\* column refers to the session row
RegisterUserControllerV1User(r) ==
    LET q == reqs[r] IN
    /\ build = "v1"
    /\ Quiet
    /\ q.pc = "reg_user"
    /\ UNCHANGED <<todoVars, build, now, jwt_tokens, nextUserId, nextJWTId, revoked>>
    /\ \E fail \in BOOLEAN :
          IF fail \/ ~UserInsertable(q.user.id, q.user.email)
                  \/ ~JWTReferable(q.user.jwt)
          THEN /\ Commit(r, Respond([q EXCEPT !.fault = fail], 500, "Error creating user"))
               /\ UNCHANGED <<users, held>>
          ELSE /\ users' = users \cup {q.user}
               /\ held' = held \cup {q.jwt.token}
               /\ Commit(r, [Respond(q, 200, "User registered successfully")
                                EXCEPT !.token = q.jwt.token])

\* apps/todos/sql.go LoginUserController: user lookup and password
LoginUserControllerV1(r) ==
    /\ build = "v1"
    /\ Quiet
    /\ reqs[r].pc = "idle"
    /\ UNCHANGED <<todoVars, build, now, users, jwt_tokens, nextUserId, nextJWTId, held, revoked>>
    /\ \E body \in LoginBodies :
       LET q == [IdleReq EXCEPT !.route = "login", !.email = body.email,
                                !.password = body.password]
       IN
       IF body.email = "" \/ body.password = ""
       THEN Commit(r, Respond(q, 400, "All fields are required"))
       ELSE \E fail \in BOOLEAN :
            LET res == QueryRowUserByEmail(body.email, fail)
                q1 == [q EXCEPT !.fault = fail, !.user = res.row]
            IN
            IF res.err = ErrNoRows
            THEN Commit(r, Respond(q1, 404, "User not found + 1"))
            ELSE IF res.err # NilErr
            THEN Commit(r, Respond(q1, 500, "Error checking user"))
            ELSE IF ~CompareEncryptedPassword(res.row.password, body.password)
            THEN Commit(r, Respond(q1, 401, "Invalid credentials"))
            ELSE IF res.row.jwt = 0
            THEN Commit(r, [q1 EXCEPT !.pc = "issue"])
            ELSE Commit(r, [q1 EXCEPT !.pc = "login_jwtinfo"])

\* apps/todos/sql.go LoginUserController: a user without a session gets one
LoginUserControllerV1Issue(r) ==
    LET q == reqs[r]
        jwtToken == CreateToken(q.user.id, now)
        jwt == [id |-> nextJWTId, token |-> jwtToken.Token,
                expires_at |-> jwtToken.ExpiresAt, user_id |-> 0]
    IN
    /\ build = "v1"
    /\ Quiet
    /\ q.pc = "issue"
    /\ nextJWTId <= MaxJWTs
    /\ UNCHANGED <<todoVars, build, now, revoked, nextUserId>>
    /\ \E fail \in BOOLEAN :
          IF fail \/ ~JWTInsertable(jwt.id, jwt.token)
          THEN /\ Commit(r, Respond([q EXCEPT !.fault = fail], 500,
                                    "Error creating new JWT and updating the user"))
               /\ UNCHANGED <<users, jwt_tokens, nextJWTId, held>>
          ELSE /\ nextJWTId' = nextJWTId + 1
               /\ held' = held \cup {jwt.token}
               /\ CreateNewJWT_UpdateUserRowQuery(jwt.id, jwt.token, jwt.expires_at,
                                                  q.user.id)
               /\ Commit(r, [Respond(q, 200, "User logged in successfully")
                                EXCEPT !.token = jwt.token, !.jwt = jwt])

\* apps/todos/sql.go LoginUserController: the user joined with its session;
\* the replacement token of an expired session is signed here, ahead of the
\* delete
LoginUserControllerV1Info(r) ==
    LET q == reqs[r] IN
    /\ build = "v1"
    /\ Quiet
    /\ q.pc = "login_jwtinfo"
    /\ UNCHANGED <<todoVars, build, now, users, jwt_tokens, nextUserId, nextJWTId, held, revoked>>
    /\ \E fail \in BOOLEAN :
          LET res == QueryRowUserLoginInfo(q.user.id, fail)
              q1 == [q EXCEPT !.fault = fail]
              jwtToken == CreateToken(q.user.id, now)
          IN
          IF res.err = ErrNoRows
          THEN Commit(r, Respond(q1, 404, "User not found + 2"))
          ELSE IF res.err # NilErr
          THEN Commit(r, Respond(q1, 500, "Error finding user"))
          ELSE IF Before(res.row.expires_at, now)
          THEN Commit(r, [q1 EXCEPT !.pc = "login_delete",
                                    !.oldJWTId = res.row.id,
                                    !.jwt = [id |-> 0, token |-> jwtToken.Token,
                                             expires_at |-> jwtToken.ExpiresAt,
                                             user_id |-> 0]])
          ELSE Commit(r, [Respond(q1, 200, "User logged in successfully")
                             EXCEPT !.token = res.row.token, !.jwt = res.row])

\* apps/todos/sql.go LoginUserController: delete of the expired session
LoginUserControllerV1Delete(r) ==
    LET q == reqs[r] IN
    /\ build = "v1"
    /\ Quiet
    /\ q.pc = "login_delete"
    /\ UNCHANGED <<todoVars, build, now, nextUserId, nextJWTId, held, revoked>>
    /\ \E fail \in BOOLEAN :
          IF fail
          THEN /\ Commit(r, Respond(Faulted(q), 500, "Error deleting expired JWT"))
               /\ UNCHANGED <<users, jwt_tokens>>
          ELSE /\ DeleteJWTById(q.oldJWTId)
               /\ Commit(r, [q EXCEPT !.pc = "login_reissue"])

\* apps/todos/sql.go LoginUserController: the replacement session is stored
LoginUserControllerV1Reissue(r) ==
    LET q == reqs[r]
        jwt == [q.jwt EXCEPT !.id = nextJWTId]
    IN
    /\ build = "v1"
    /\ Quiet
    /\ q.pc = "login_reissue"
    /\ nextJWTId <= MaxJWTs
    /\ UNCHANGED <<todoVars, build, now, revoked, nextUserId>>
    /\ \E fail \in BOOLEAN :
          IF fail \/ ~JWTInsertable(jwt.id, jwt.token)
          THEN /\ Commit(r, Respond([q EXCEPT !.fault = fail], 500,
                                    "Error creating new JWT and updating the user"))
               /\ UNCHANGED <<users, jwt_tokens, nextJWTId, held>>
          ELSE /\ nextJWTId' = nextJWTId + 1
               /\ held' = held \cup {jwt.token}
               /\ CreateNewJWT_UpdateUserRowQuery(jwt.id, jwt.token, jwt.expires_at,
                                                  q.user.id)
               /\ Commit(r, [Respond(q, 200, "User logged in successfully")
                                EXCEPT !.token = jwt.token, !.jwt = jwt])

\* apps/todos/sql.go LogoutUserController
LogoutUserControllerV1(r) ==
    LET q == reqs[r] IN
    /\ build = "v1"
    /\ Quiet
    /\ q.pc = "logout"
    /\ UNCHANGED <<todoVars, build, now, nextUserId, nextJWTId, held>>
    /\ \E fail \in BOOLEAN :
          IF fail
          THEN /\ Commit(r, Respond(Faulted(q), 500, "Error deleting JWT"))
               /\ UNCHANGED <<users, jwt_tokens, revoked>>
          ELSE /\ DeleteJWTById(q.jwt.id)
               /\ revoked' = revoked \cup {q.jwt.token}
               /\ Commit(r, Respond(q, 200, "User logged out successfully"))

\* apps/todos/sql.go UserProfileController: loads the session's owner itself
UserProfileControllerV1(r) ==
    LET q == reqs[r] IN
    /\ build = "v1"
    /\ Quiet
    /\ q.pc = "profile"
    /\ UNCHANGED <<todoVars, build, now, users, jwt_tokens, nextUserId, nextJWTId, held, revoked>>
    /\ \E fail \in BOOLEAN :
          LET res == QueryRowUserByJWT(q.jwt.id, fail)
              q1 == [q EXCEPT !.fault = fail]
          IN
          IF res.err = ErrNoRows
          THEN Commit(r, Respond(q1, 500, "Internal Server Error"))
          ELSE IF res.err # NilErr
          THEN Commit(r, Respond(q1, 404, "User not found"))
          ELSE Commit(r, [Respond(q1, 200, "User profile fetched successfully")
                             EXCEPT !.user = res.row, !.resolved = TRUE])

\* ------------------------------------------------- v2: session validator
\* unnamed/part_016 Authenticated: header checks, then the token lookup
Authenticated016(r) ==
    /\ build = "v2"
    /\ Quiet
    /\ reqs[r].pc = "idle"
    /\ UNCHANGED <<todoVars, build, now, users, jwt_tokens, nextUserId, nextJWTId, held, revoked>>
    /\ \E route \in ProtectedRoutes, hdr \in Headers :
       LET q == Arrive(r, route, hdr)
           authorizationParts == Split(hdr)
       IN
       IF hdr = EmptyString
       THEN Commit(r, UnauthorizedAccess(q, NilErr, "Authorization header is missing"))
       ELSE IF Len(authorizationParts) # 2
       THEN Commit(r, UnauthorizedAccess(q, NilErr, "Invalid Authorization header format"))
       ELSE IF authorizationParts[1] # Bearer
       THEN Commit(r, UnauthorizedAccess(q, NilErr, "Authorization type must be 'Bearer'"))
       ELSE IF authorizationParts[2] = EmptyString
       THEN Commit(r, UnauthorizedAccess(q, NilErr, "Token is missing"))
       ELSE \E fail \in BOOLEAN :
            LET res == QueryRowJWTByToken(authorizationParts[2], fail)
                count == IF res.err = NilErr THEN 1 ELSE 0
                q1 == [q EXCEPT !.bearer = authorizationParts[2], !.queried = TRUE,
                                !.fault = fail]
            IN
            IF res.err # NilErr
            THEN Commit(r, InternelServerError(q1, res.err, "Internal Server Error"))
            ELSE IF count = 0
            THEN Commit(r, UnauthorizedAccess(q1, NilErr, "Invalid token"))
            ELSE IF Before(res.row.expires_at, now)
            THEN Commit(r, [q1 EXCEPT !.pc = "auth_delete", !.jwt = res.row])
            ELSE Commit(r, [q1 EXCEPT !.pc = AfterAuth(route), !.jwt = res.row,
                                      !.live = TRUE,
                                      !.atExpiry = (res.row.expires_at = now)])

\* unnamed/part_016 Authenticated: the delete of an expired token
Authenticated016Delete(r) ==
    LET q == reqs[r] IN
    /\ build = "v2"
    /\ Quiet
    /\ q.pc = "auth_delete"
    /\ UNCHANGED <<todoVars, build, now, nextUserId, nextJWTId, held, revoked>>
    /\ \E fail \in BOOLEAN :
          IF fail
          THEN /\ Commit(r, InternelServerError(Faulted(q), ErrStore, "Internal Server Error"))
               /\ UNCHANGED <<users, jwt_tokens>>
          ELSE /\ DeleteJWTById(q.jwt.id)
               /\ Commit(r, UnauthorizedAccess(q, NilErr,
                                "Token has expired. Please login again."))

\* backend/middleware/user.go AuthenticatedUser: loads the session's owner
AuthenticatedUser(r) ==
    LET q == reqs[r] IN
    /\ build = "v2"
    /\ Quiet
    /\ q.pc = "resolve"
    /\ UNCHANGED <<todoVars, build, now, users, jwt_tokens, nextUserId, nextJWTId, held, revoked>>
    /\ IF q.jwt = NoJWT
       THEN Commit(r, UnauthorizedAccess(q, NilErr, "Authentication required"))
       ELSE \E fail \in BOOLEAN :
            LET res == QueryRowUserByJWT(q.jwt.id, fail)
                q1 == [q EXCEPT !.fault = fail]
            IN
            IF res.err = ErrNoRows
            THEN Commit(r, NotFound(q1, res.err, "User not found"))
            ELSE IF res.err # NilErr
            THEN Commit(r, InternelServerError(q1, res.err, "Error fetching user data"))
            ELSE Commit(r, [q1 EXCEPT !.pc = "profile", !.user = res.row,
                                      !.resolved = TRUE])

\* ---------------------------------------------------- v2: controllers
\* apps/users/controllers.go RegisterUserController: field check and the
\* count pre-check on the email
RegisterUserController(r) ==
    /\ build = "v2"
    /\ Quiet
    /\ reqs[r].pc = "idle"
    /\ UNCHANGED <<todoVars, build, now, users, jwt_tokens, nextUserId, nextJWTId, held, revoked>>
    /\ \E body \in RegisterBodies :
       LET name == body.name
           email == body.email
           password == body.password
           q == [IdleReq EXCEPT !.route = "register", !.name = name,
                                !.email = email, !.password = password]
       IN
       IF name = "" \/ email = "" \/ password = ""
       THEN Commit(r, BadResponse(q, "All fields are required"))
       ELSE \E fail \in BOOLEAN :
            IF fail
            THEN Commit(r, InternelServerError(Faulted(q), ErrStore,
                                 "Error checking unique email"))
            ELSE IF CountUsersByEmail(email) > 0
            THEN Commit(r, BadResponse(q, "This email already is ready used. Try something new!"))
            ELSE Commit(r, [q EXCEPT !.pc = "reg_insert"])

\* apps/users/controllers.go RegisterUserController: the user insert
RegisterUserControllerInsert(r) ==
    LET q == reqs[r]
        user == [id |-> nextUserId, email |-> q.email,
                 password |-> EncryptPassword(q.password), jwt |-> 0]
    IN
    /\ build = "v2"
    /\ Quiet
    /\ q.pc = "reg_insert"
    /\ nextUserId <= MaxUsers
    /\ UNCHANGED <<todoVars, build, now, jwt_tokens, held, revoked, nextJWTId>>
    /\ \E fail \in BOOLEAN :
          IF fail \/ ~UserInsertable(user.id, user.email)
          THEN /\ Commit(r, InternelServerError([q EXCEPT !.fault = fail], ErrStore,
                                  "Error creating user"))
               /\ UNCHANGED <<users, nextUserId>>
          ELSE /\ users' = users \cup {user}
               /\ nextUserId' = nextUserId + 1
               /\ Commit(r, [q EXCEPT !.pc = "issue", !.user = user])

\* apps/users/controllers.go CreateNewJWTAndUpdateUser, and the response of
\* the register or login handler that called it
CreateNewJWTAndUpdateUser(r) ==
    LET q == reqs[r]
        jwtToken == CreateToken(q.user.id, now)
        jwt == [id |-> nextJWTId, token |-> jwtToken.Token,
                expires_at |-> jwtToken.ExpiresAt, user_id |-> 0]
    IN
    /\ build = "v2"
    /\ Quiet
    /\ q.pc = "issue"
    /\ nextJWTId <= MaxJWTs
    /\ UNCHANGED <<todoVars, build, now, revoked, nextUserId>>
    /\ \E fail \in BOOLEAN :
          IF fail \/ ~JWTInsertable(jwt.id, jwt.token)
          THEN /\ Commit(r, InternelServerError([q EXCEPT !.fault = fail], ErrStore,
                                  "Error creating JWT token"))
               /\ UNCHANGED <<users, jwt_tokens, nextJWTId, held>>
          ELSE /\ nextJWTId' = nextJWTId + 1
               /\ held' = held \cup {jwt.token}
               /\ CreateNewJWT_UpdateUserRowQuery(jwt.id, jwt.token, jwt.expires_at,
                                                  q.user.id)
               /\ Commit(r, [OKResponse(q, IF q.route = "register"
                                           THEN "User registered successfully"
                                           ELSE "User logged in successfully")
                                EXCEPT !.token = jwt.token, !.jwt = jwt])

\* apps/users/controllers.go LoginUserController: user lookup and password
LoginUserController(r) ==
    /\ build = "v2"
    /\ Quiet
    /\ reqs[r].pc = "idle"
    /\ UNCHANGED <<todoVars, build, now, users, jwt_tokens, nextUserId, nextJWTId, held, revoked>>
    /\ \E body \in LoginBodies :
       LET email == body.email
           password == body.password
           q == [IdleReq EXCEPT !.route = "login", !.email = email,
                                !.password = password]
       IN
       IF email = "" \/ password = ""
       THEN Commit(r, BadResponse(q, "All fields are required"))
       ELSE \E fail \in BOOLEAN :
            LET res == QueryRowUserByEmail(email, fail)
                q1 == [q EXCEPT !.fault = fail, !.user = res.row]
            IN
            IF res.err = ErrNoRows
            THEN Commit(r, NotFound(q1, res.err, "User not found"))
            ELSE IF res.err # NilErr
            THEN Commit(r, InternelServerError(q1, res.err, "Error fetching user profile info"))
            ELSE IF ~CompareEncryptedPassword(res.row.password, password)
            THEN Commit(r, UnauthorizedAccess(q1, res.err, "Invalid credentials"))
            ELSE IF res.row.jwt = 0
            THEN Commit(r, [q1 EXCEPT !.pc = "issue"])
            ELSE Commit(r, [q1 EXCEPT !.pc = "login_jwtinfo"])

\* apps/users/controllers.go LoginUserController: the referenced session
LoginUserControllerJWTInfo(r) ==
    LET q == reqs[r] IN
    /\ build = "v2"
    /\ Quiet
    /\ q.pc = "login_jwtinfo"
    /\ UNCHANGED <<todoVars, build, now, users, jwt_tokens, nextUserId, nextJWTId, held, revoked>>
    /\ \E fail \in BOOLEAN :
          LET res == QueryRowJWTById(q.user.jwt, fail)
              q1 == [q EXCEPT !.fault = fail]
          IN
          IF res.err = ErrNoRows
          THEN Commit(r, NotFound(q1, res.err, "User not found"))
          ELSE IF res.err # NilErr
          THEN Commit(r, InternelServerError(q1, res.err, "Error fetching user login info"))
          ELSE IF Before(res.row.expires_at, now)
          THEN Commit(r, [q1 EXCEPT !.pc = "login_delete", !.jwt = res.row])
          ELSE Commit(r, [OKResponse(q1, "User logged in successfully")
                             EXCEPT !.token = res.row.token, !.jwt = res.row])

\* apps/users/controllers.go LoginUserController: delete of the expired session
LoginUserControllerDelete(r) ==
    LET q == reqs[r] IN
    /\ build = "v2"
    /\ Quiet
    /\ q.pc = "login_delete"
    /\ UNCHANGED <<todoVars, build, now, nextUserId, nextJWTId, held, revoked>>
    /\ \E fail \in BOOLEAN :
          IF fail
          THEN /\ Commit(r, InternelServerError(Faulted(q), ErrStore,
                                  "Error deleting expired JWT"))
               /\ UNCHANGED <<users, jwt_tokens>>
          ELSE /\ DeleteJWTById(q.jwt.id)
               /\ Commit(r, [q EXCEPT !.pc = "issue", !.oldJWTId = q.jwt.id])

\* apps/users/controllers.go LogoutUserController
LogoutUserController(r) ==
    LET q == reqs[r] IN
    /\ build = "v2"
    /\ Quiet
    /\ q.pc = "logout"
    /\ UNCHANGED <<todoVars, build, now, nextUserId, nextJWTId, held>>
    /\ \E fail \in BOOLEAN :
          IF fail
          THEN /\ Commit(r, InternelServerError(Faulted(q), ErrStore, "Error deleting JWT"))
               /\ UNCHANGED <<users, jwt_tokens, revoked>>
          ELSE /\ DeleteJWTById(q.jwt.id)
               /\ revoked' = revoked \cup {q.jwt.token}
               /\ Commit(r, OKResponse(q, "User logged out successfully"))

\* apps/users/controllers.go UserProfileController
UserProfileController(r) ==
    LET q == reqs[r] IN
    /\ build = "v2"
    /\ Quiet
    /\ q.pc = "profile"
    /\ UNCHANGED <<todoVars, build, now, users, jwt_tokens, nextUserId, nextJWTId, held, revoked>>
    /\ IF q.resolved
       THEN Commit(r, OKResponse(q, "User profile fetched successfully"))
       ELSE Commit(r, Panic(q))

\* ------------------------------------------------- v3: session validator
\* apps/users/auth_middleware.go AuthMiddleware: header checks, then the
\* token lookup
AuthMiddleware(r) ==
    /\ build = "v3"
    /\ Quiet
    /\ reqs[r].pc = "idle"
    /\ UNCHANGED <<todoVars, build, now, users, jwt_tokens, nextUserId, nextJWTId, held, revoked>>
    /\ \E route \in ProtectedRoutes, hdr \in Headers :
       LET q == Arrive(r, route, hdr)
           parts == Split(hdr)
       IN
       IF hdr = EmptyString
       THEN Commit(r, Respond(q, 401, "ErrMissingAuthHeader"))
       ELSE IF Len(parts) # 2 \/ parts[1] # Bearer
       THEN Commit(r, Respond(q, 401, "ErrInvalidAuthHeader"))
       ELSE \E fail \in BOOLEAN :
            LET res == QueryRowJWTByToken(parts[2], fail)
                q1 == [q EXCEPT !.bearer = parts[2], !.queried = TRUE, !.fault = fail]
            IN
            IF res.err = ErrNoRows
            THEN Commit(r, Respond(q1, 401, "ErrInvalidToken"))
            ELSE IF res.err # NilErr
            THEN Commit(r, Respond(q1, 500, "Database error"))
            ELSE IF After(now, res.row.expires_at)
            THEN Commit(r, [q1 EXCEPT !.pc = "auth_delete", !.jwt = res.row])
            ELSE Commit(r, [q1 EXCEPT !.pc = "resolve", !.jwt = res.row,
                                      !.live = TRUE,
                                      !.atExpiry = (res.row.expires_at = now)])

\* apps/users/auth_middleware.go AuthMiddleware: the delete of an expired
\* token, whose result is not looked at
AuthMiddlewareDelete(r) ==
    LET q == reqs[r] IN
    /\ build = "v3"
    /\ Quiet
    /\ q.pc = "auth_delete"
    /\ UNCHANGED <<todoVars, build, now, nextUserId, nextJWTId, held, revoked>>
    /\ \E fail \in BOOLEAN :
          /\ IF fail THEN UNCHANGED <<users, jwt_tokens>>
                     ELSE DeleteJWTByToken(q.bearer)
          /\ Commit(r, Respond([q EXCEPT !.fault = fail], 401, "ErrTokenExpired"))

\* apps/users/auth_middleware.go AuthMiddleware: the owner of the session
AuthMiddlewareUser(r) ==
    LET q == reqs[r] IN
    /\ build = "v3"
    /\ Quiet
    /\ q.pc = "resolve"
    /\ UNCHANGED <<todoVars, build, now, users, jwt_tokens, nextUserId, nextJWTId, held, revoked>>
    /\ \E fail \in BOOLEAN :
          LET res == QueryRowUserById(q.jwt.user_id, fail)
              q1 == [q EXCEPT !.fault = fail]
          IN
          IF res.err # NilErr
          THEN Commit(r, Respond(q1, 401, "ErrUserNotFound"))
          ELSE Commit(r, [q1 EXCEPT !.pc = q.route, !.user = res.row,
                                    !.resolved = TRUE])

\* ---------------------------------------------------- v3: controllers
\* unnamed/part_010 Register: the user insert, with no check of the fields
Register(r) ==
    /\ build = "v3"
    /\ Quiet
    /\ reqs[r].pc = "idle"
    /\ nextUserId <= MaxUsers
    /\ UNCHANGED <<todoVars, build, now, jwt_tokens, held, revoked, nextJWTId>>
    /\ \E body \in RegisterBodies, fail \in BOOLEAN :
       LET user == [id |-> nextUserId, email |-> body.email,
                    password |-> EncryptPassword(body.password), jwt |-> 0]
           q == [IdleReq EXCEPT !.route = "register", !.name = body.name,
                                !.email = body.email, !.password = body.password,
                                !.fault = fail]
       IN
       IF fail \/ ~UserInsertable(user.id, user.email)
       THEN /\ Commit(r, Respond(q, 500, "Could not create user"))
            /\ UNCHANGED <<users, nextUserId>>
       ELSE /\ users' = users \cup {user}
            /\ nextUserId' = nextUserId + 1
            /\ Commit(r, [q EXCEPT !.pc = "issue", !.user = user])

\* unnamed/part_010 GenerateToken, and the response of the Register or Login
\* handler that called it
GenerateToken(r) ==
    LET q == reqs[r]
        jwtToken == CreateToken(q.user.id, now)
        jwt == [id |-> nextJWTId, token |-> jwtToken.Token,
                expires_at |-> jwtToken.ExpiresAt, user_id |-> q.user.id]
    IN
    /\ build = "v3"
    /\ Quiet
    /\ q.pc = "issue"
    /\ nextJWTId <= MaxJWTs
    /\ UNCHANGED <<todoVars, build, now, users, revoked, nextUserId>>
    /\ \E fail \in BOOLEAN :
          IF fail \/ ~JWTInsertable(jwt.id, jwt.token)
          THEN /\ Commit(r, Respond([q EXCEPT !.fault = fail], 500,
                                    "Failed to generate token"))
               /\ UNCHANGED <<jwt_tokens, nextJWTId, held>>
          ELSE /\ jwt_tokens' = jwt_tokens \cup {jwt}
               /\ nextJWTId' = nextJWTId + 1
               /\ held' = held \cup {jwt.token}
               /\ Commit(r, [Respond(q, IF q.route = "register" THEN 201 ELSE 200,
                                     IF q.route = "register"
                                     THEN "User registered successfully" ELSE "")
                                EXCEPT !.token = jwt.token, !.jwt = jwt])

\* unnamed/part_010 Login: user lookup and password
Login(r) ==
    /\ build = "v3"
    /\ Quiet
    /\ reqs[r].pc = "idle"
    /\ UNCHANGED <<todoVars, build, now, users, jwt_tokens, nextUserId, nextJWTId, held, revoked>>
    /\ \E body \in LoginBodies, fail \in BOOLEAN :
       LET res == QueryRowUserByEmail(body.email, fail)
           q == [IdleReq EXCEPT !.route = "login", !.email = body.email,
                                !.password = body.password, !.fault = fail,
                                !.user = res.row]
       IN
       IF res.err # NilErr
       THEN Commit(r, Respond(q, 401, "ErrInvalidCredentials"))
       ELSE IF ~CompareEncryptedPassword(res.row.password, body.password)
       THEN Commit(r, Respond(q, 401, "ErrInvalidCredentials"))
       ELSE Commit(r, [q EXCEPT !.pc = "issue"])

\* unnamed/part_010 Logout: deletes by the token cut out of the header
Logout(r) ==
    LET q == reqs[r]
        tokenString == TrimPrefix(q.hdr, Bearer \o Space)
    IN
    /\ build = "v3"
    /\ Quiet
    /\ q.pc = "logout"
    /\ UNCHANGED <<todoVars, build, now, nextUserId, nextJWTId, held>>
    /\ \E fail \in BOOLEAN :
          /\ IF fail THEN UNCHANGED <<users, jwt_tokens, revoked>>
                     ELSE /\ DeleteJWTByToken(tokenString)
                          /\ revoked' = revoked \cup {tokenString}
          /\ Commit(r, Respond([q EXCEPT !.fault = fail], 200, "Logged out successfully"))

\* unnamed/part_010 GetProfile
GetProfile(r) ==
    LET q == reqs[r] IN
    /\ build = "v3"
    /\ Quiet
    /\ q.pc = "profile"
    /\ UNCHANGED <<todoVars, build, now, users, jwt_tokens, nextUserId, nextJWTId, held, revoked>>
    /\ IF q.resolved
       THEN Commit(r, Respond(q, 200, ""))
       ELSE Commit(r, Respond(q, 401, "Unauthorized"))

\* ================================================================ todos
\* Todo requests are modelled from the point where the middleware chain has
\* handed them on: the subject in c.Locals("user") is a stored subject.

Titles == {"", "t1", "t2"}
TodoIds == 1..MaxTodos

CallsQuiet == \A d \in TodoReqs : ~Terminal(calls[d])

\* The todo request c moves to q; a process crash aborts the other requests.
CommitCall(c, q) ==
    calls' = [d \in TodoReqs |->
                 IF d = c THEN q
                 ELSE IF q.pc = "panic" /\ InFlight(calls[d])
                      THEN [calls[d] EXCEPT !.pc = "aborted"]
                      ELSE calls[d]]

\* the registered subjects, each with the session its registration issued
TodoInit ==
    /\ build \in {"v2", "v3"}
    /\ now = 0
    /\ users = {[id |-> i,
                 email |-> IF i = 1 THEN "a@x.com" ELSE "b@x.com",
                 password |-> EncryptPassword("secret1"),
                 jwt |-> IF build = "v3" THEN 0 ELSE i] : i \in 1..2}
    /\ jwt_tokens = {[id |-> i,
                      token |-> CreateToken(i, 0).Token,
                      expires_at |-> CreateToken(i, 0).ExpiresAt,
                      user_id |-> IF build = "v3" THEN i ELSE 0] : i \in 1..2}
    /\ nextUserId = 3
    /\ nextJWTId = 3
    /\ held = {CreateToken(i, 0).Token : i \in 1..2}
    /\ revoked = {}
    /\ reqs = [r \in Reqs |-> IdleReq]
    /\ todos = {}
    /\ nextTodoId = 1
    /\ calls = [c \in TodoReqs |-> IdleCall]

\* The responses are written and the finished todo requests leave the server.
TodoDeliver ==
    /\ ~CallsQuiet
    /\ calls' = [d \in TodoReqs |-> IF Terminal(calls[d]) THEN IdleCall ELSE calls[d]]
    /\ UNCHANGED <<build, now, users, jwt_tokens, nextUserId, nextJWTId, held,
                   revoked, reqs, todos, nextTodoId>>

\* ------------------------------------------------------ store statements
\* SELECT owner FROM todos WHERE id = $1, scanned
GetTodoUserQuery(todoId, fail) ==
    IF fail THEN [err |-> ErrStore, owner |-> 0]
    ELSE IF \E t \in todos : t.id = todoId
         THEN [err |-> NilErr, owner |-> (CHOOSE t \in todos : t.id = todoId).owner]
         ELSE [err |-> ErrNoRows, owner |-> 0]

\* UPDATE todos SET title = $1 WHERE id = $2
UpdateTodoTitleQuery(title, todoId) ==
    todos' = {IF t.id = todoId THEN [t EXCEPT !.title = title] ELSE t : t \in todos}

\* UPDATE todos SET completed = $1 WHERE id = $2
UpdateTodoCompletedQuery(completed, todoId) ==
    todos' = {IF t.id = todoId THEN [t EXCEPT !.completed = completed] ELSE t
              : t \in todos}

\* DELETE FROM todos WHERE id = $1
DeleteTodoByIdQuery(todoId) ==
    todos' = {t \in todos : t.id # todoId}

\* the rows that the statements of sql_commands.go address:
\* WHERE id = $.. AND user_id = $..
OwnRows(todoId, userId) ==
    {t \in todos : t.id = todoId /\ t.owner = userId}

\* UPDATE todos SET todo = $1 ... WHERE id = $3 AND user_id = $4
UpdateTodoQuery(title, todoId, userId) ==
    todos' = {IF t \in OwnRows(todoId, userId) THEN [t EXCEPT !.title = title] ELSE t
              : t \in todos}

\* UPDATE todos SET completed = NOT completed ... WHERE id = $2 AND user_id = $3
UpdateTodoStatusQuery(todoId, userId) ==
    todos' = {IF t \in OwnRows(todoId, userId)
              THEN [t EXCEPT !.completed = ~t.completed] ELSE t : t \in todos}

\* DELETE FROM todos WHERE id = $1 AND user_id = $2
DeleteTodoQuery(todoId, userId) ==
    todos' = todos \ OwnRows(todoId, userId)

\* ------------------------------------------- v2: apps/todos/controller.go
MatchAnyUserWithTodoOwner(todoId, currentUserId, fail) ==
    LET res == GetTodoUserQuery(todoId, fail) IN
    IF res.err # NilErr THEN [matched |-> FALSE, err |-> res.err]
    ELSE [matched |-> TRUE, err |-> NilErr]

MatchCurrentUserWithTodoOwner(todoId, currentUserId, fail) ==
    LET res == GetTodoUserQuery(todoId, fail) IN
    IF res.err # NilErr THEN [matched |-> FALSE, err |-> res.err]
    ELSE [matched |-> res.owner = currentUserId, err |-> NilErr]

\* the arrival of a todo request of subject u
Call(op, u, todoId, title, completed) ==
    [IdleCall EXCEPT !.op = op, !.pc = "act", !.user = u.id, !.id = todoId,
                     !.title = title, !.completed = completed]

CreateTodoController(c) ==
    /\ build = "v2"
    /\ CallsQuiet
    /\ calls[c].pc = "idle"
    /\ nextTodoId <= MaxTodos
    /\ UNCHANGED <<build, now, users, jwt_tokens, nextUserId, nextJWTId, held,
                   revoked, reqs>>
    /\ \E u \in users, title \in Titles :
       LET q == Call("create", u, 0, title, FALSE) IN
       IF title = ""
       THEN /\ CommitCall(c, BadResponse(q, "Title is required"))
            /\ UNCHANGED <<todos, nextTodoId>>
       ELSE \E fail \in BOOLEAN :
            IF fail
            THEN /\ CommitCall(c, BadResponse(q, "Unable to create todo"))
                 /\ UNCHANGED <<todos, nextTodoId>>
            ELSE /\ todos' = todos \cup {[id |-> nextTodoId, owner |-> u.id,
                                          title |-> title, completed |-> FALSE]}
                 /\ nextTodoId' = nextTodoId + 1
                 /\ CommitCall(c, Respond([q EXCEPT !.id = nextTodoId], 201,
                                          "Todo created successfully"))

\* UpdateTodoController: the owner check, then the body
UpdateTodoController(c) ==
    /\ build = "v2"
    /\ CallsQuiet
    /\ calls[c].pc = "idle"
    /\ UNCHANGED <<build, now, users, jwt_tokens, nextUserId, nextJWTId, held,
                   revoked, reqs, todos, nextTodoId>>
    /\ \E u \in users, todoId \in TodoIds, title \in Titles, fail \in BOOLEAN :
       LET q == Call("update", u, todoId, title, FALSE)
           m == MatchCurrentUserWithTodoOwner(todoId, u.id, fail)
       IN
       IF ~m.matched
       THEN CommitCall(c, UnauthorizedAccess(q, m.err,
                              "You are not authorized to update this todo"))
       ELSE IF title = ""
       THEN CommitCall(c, BadResponse(q, "Title is required"))
       ELSE CommitCall(c, q)

\* CompleteTodoController: the owner check, then the body
CompleteTodoController(c) ==
    /\ build = "v2"
    /\ CallsQuiet
    /\ calls[c].pc = "idle"
    /\ UNCHANGED <<build, now, users, jwt_tokens, nextUserId, nextJWTId, held,
                   revoked, reqs, todos, nextTodoId>>
    /\ \E u \in users, todoId \in TodoIds, completed \in BOOLEAN, fail \in BOOLEAN :
       LET q == Call("complete", u, todoId, "", completed)
           m == MatchCurrentUserWithTodoOwner(todoId, u.id, fail)
       IN
       IF ~m.matched
       THEN CommitCall(c, UnauthorizedAccess(q, m.err,
                              "You are not authorized to update this todo"))
       ELSE CommitCall(c, q)

\* DeleteTodoController: the owner check
DeleteTodoController(c) ==
    /\ build = "v2"
    /\ CallsQuiet
    /\ calls[c].pc = "idle"
    /\ UNCHANGED <<build, now, users, jwt_tokens, nextUserId, nextJWTId, held,
                   revoked, reqs, todos, nextTodoId>>
    /\ \E u \in users, todoId \in TodoIds, fail \in BOOLEAN :
       LET q == Call("delete", u, todoId, "", FALSE)
           m == MatchCurrentUserWithTodoOwner(todoId, u.id, fail)
       IN
       IF ~m.matched
       THEN CommitCall(c, UnauthorizedAccess(q, m.err,
                              "You are not authorized to update this todo"))
       ELSE CommitCall(c, q)

\* UpdateTodoController: QueryRow(UpdateTodoTitleQuery, ...).Scan
UpdateTodoControllerWrite(c) ==
    LET q == calls[c] IN
    /\ build = "v2"
    /\ CallsQuiet
    /\ q.pc = "act" /\ q.op = "update"
    /\ UNCHANGED <<build, now, users, jwt_tokens, nextUserId, nextJWTId, held,
                   revoked, reqs, nextTodoId>>
    /\ \E fail \in BOOLEAN :
          IF fail \/ \A t \in todos : t.id # q.id
          THEN /\ CommitCall(c, Respond(q, 500, "Unable to update todo"))
               /\ UNCHANGED todos
          ELSE /\ UpdateTodoTitleQuery(q.title, q.id)
               /\ CommitCall(c, OKResponse(q, "Todo updated successfully"))

\* CompleteTodoController: QueryRow(UpdateTodoCompletedQuery, ...).Scan
CompleteTodoControllerWrite(c) ==
    LET q == calls[c] IN
    /\ build = "v2"
    /\ CallsQuiet
    /\ q.pc = "act" /\ q.op = "complete"
    /\ UNCHANGED <<build, now, users, jwt_tokens, nextUserId, nextJWTId, held,
                   revoked, reqs, nextTodoId>>
    /\ \E fail \in BOOLEAN :
          IF fail \/ \A t \in todos : t.id # q.id
          THEN /\ CommitCall(c, Respond(q, 500, "Unable to update todo"))
               /\ UNCHANGED todos
          ELSE /\ UpdateTodoCompletedQuery(q.completed, q.id)
               /\ CommitCall(c, OKResponse(q, "Todo updated successfully"))

\* DeleteTodoController: Exec(DeleteTodoQuery, todoId)
DeleteTodoControllerWrite(c) ==
    LET q == calls[c] IN
    /\ build = "v2"
    /\ CallsQuiet
    /\ q.pc = "act" /\ q.op = "delete"
    /\ UNCHANGED <<build, now, users, jwt_tokens, nextUserId, nextJWTId, held,
                   revoked, reqs, nextTodoId>>
    /\ \E fail \in BOOLEAN :
          IF fail
          THEN /\ CommitCall(c, Respond(q, 500, "Unable to delete todo"))
               /\ UNCHANGED todos
          ELSE /\ DeleteTodoByIdQuery(q.id)
               /\ CommitCall(c, OKResponse(q, "Todo deleted successfully"))

\* ------------------------------------------------ v3: unnamed/part_021
CreateTodo(c) ==
    /\ build = "v3"
    /\ CallsQuiet
    /\ calls[c].pc = "idle"
    /\ nextTodoId <= MaxTodos
    /\ UNCHANGED <<build, now, users, jwt_tokens, nextUserId, nextJWTId, held,
                   revoked, reqs>>
    /\ \E u \in users, title \in Titles, fail \in BOOLEAN :
       LET q == Call("create", u, 0, title, FALSE) IN
       IF fail
       THEN /\ CommitCall(c, Respond(q, 500, "Failed to create todo"))
            /\ UNCHANGED <<todos, nextTodoId>>
       ELSE /\ todos' = todos \cup {[id |-> nextTodoId, owner |-> u.id,
                                     title |-> title, completed |-> FALSE]}
            /\ nextTodoId' = nextTodoId + 1
            /\ CommitCall(c, Respond([q EXCEPT !.id = nextTodoId], 201, ""))

UpdateTodo(c) ==
    /\ build = "v3"
    /\ CallsQuiet
    /\ calls[c].pc = "idle"
    /\ UNCHANGED <<build, now, users, jwt_tokens, nextUserId, nextJWTId, held,
                   revoked, reqs, nextTodoId>>
    /\ \E u \in users, todoId \in TodoIds, title \in Titles, fail \in BOOLEAN :
       LET q == Call("update", u, todoId, title, FALSE) IN
       IF fail
       THEN /\ CommitCall(c, Respond(q, 500, "Failed to update todo"))
            /\ UNCHANGED todos
       ELSE IF OwnRows(todoId, u.id) = {}
       THEN /\ CommitCall(c, Respond(q, 404, "Todo not found"))
            /\ UNCHANGED todos
       ELSE /\ UpdateTodoQuery(title, todoId, u.id)
            /\ CommitCall(c, OKResponse(q, "Todo updated successfully"))

CompleteTodo(c) ==
    /\ build = "v3"
    /\ CallsQuiet
    /\ calls[c].pc = "idle"
    /\ UNCHANGED <<build, now, users, jwt_tokens, nextUserId, nextJWTId, held,
                   revoked, reqs, nextTodoId>>
    /\ \E u \in users, todoId \in TodoIds, fail \in BOOLEAN :
       LET q == Call("complete", u, todoId, "", FALSE)
           rowsAffected == Cardinality(OwnRows(todoId, u.id))
       IN
       IF fail
       THEN /\ CommitCall(c, Respond(q, 500, "Failed to update todo status"))
            /\ UNCHANGED todos
       ELSE /\ UpdateTodoStatusQuery(todoId, u.id)
            /\ IF rowsAffected = 0
               THEN CommitCall(c, Respond(q, 404,
                                  "Todo not found or you don't have permission"))
               ELSE CommitCall(c, OKResponse(q, "Todo status updated"))

DeleteTodo(c) ==
    /\ build = "v3"
    /\ CallsQuiet
    /\ calls[c].pc = "idle"
    /\ UNCHANGED <<build, now, users, jwt_tokens, nextUserId, nextJWTId, held,
                   revoked, reqs, nextTodoId>>
    /\ \E u \in users, todoId \in TodoIds, fail \in BOOLEAN :
       LET q == Call("delete", u, todoId, "", FALSE)
           rowsAffected == Cardinality(OwnRows(todoId, u.id))
       IN
       IF fail
       THEN /\ CommitCall(c, Respond(q, 500, "Failed to delete todo"))
            /\ UNCHANGED todos
       ELSE /\ DeleteTodoQuery(todoId, u.id)
            /\ IF rowsAffected = 0
               THEN CommitCall(c, Respond(q, 404,
                                  "Todo not found or you don't have permission"))
               ELSE CommitCall(c, OKResponse(q, "Todo deleted successfully"))

\* ------------------------------------------------------------ the system
Next ==
    \/ Tick
    \/ Deliver
    \/ \E r \in Reqs : Authenticated022(r)
    \/ \E r \in Reqs : Authenticated022Delete(r)
    \/ \E r \in Reqs : RegisterUserControllerV1(r)
    \/ \E r \in Reqs : RegisterUserControllerV1JWT(r)
    \/ \E r \in Reqs : RegisterUserControllerV1User(r)
    \/ \E r \in Reqs : LoginUserControllerV1(r)
    \/ \E r \in Reqs : LoginUserControllerV1Issue(r)
    \/ \E r \in Reqs : LoginUserControllerV1Info(r)
    \/ \E r \in Reqs : LoginUserControllerV1Delete(r)
    \/ \E r \in Reqs : LoginUserControllerV1Reissue(r)
    \/ \E r \in Reqs : LogoutUserControllerV1(r)
    \/ \E r \in Reqs : UserProfileControllerV1(r)
    \/ \E r \in Reqs : Authenticated016(r)
    \/ \E r \in Reqs : Authenticated016Delete(r)
    \/ \E r \in Reqs : AuthenticatedUser(r)
    \/ \E r \in Reqs : RegisterUserController(r)
    \/ \E r \in Reqs : RegisterUserControllerInsert(r)
    \/ \E r \in Reqs : CreateNewJWTAndUpdateUser(r)
    \/ \E r \in Reqs : LoginUserController(r)
    \/ \E r \in Reqs : LoginUserControllerJWTInfo(r)
    \/ \E r \in Reqs : LoginUserControllerDelete(r)
    \/ \E r \in Reqs : LogoutUserController(r)
    \/ \E r \in Reqs : UserProfileController(r)
    \/ \E r \in Reqs : AuthMiddleware(r)
    \/ \E r \in Reqs : AuthMiddlewareDelete(r)
    \/ \E r \in Reqs : AuthMiddlewareUser(r)
    \/ \E r \in Reqs : Register(r)
    \/ \E r \in Reqs : GenerateToken(r)
    \/ \E r \in Reqs : Login(r)
    \/ \E r \in Reqs : Logout(r)
    \/ \E r \in Reqs : GetProfile(r)

Spec == Init /\ [][Next]_vars


\* the todo handlers
TodoNext ==
    \/ TodoDeliver
    \/ \E c \in TodoReqs : CreateTodoController(c)
    \/ \E c \in TodoReqs : UpdateTodoController(c)
    \/ \E c \in TodoReqs : CompleteTodoController(c)
    \/ \E c \in TodoReqs : DeleteTodoController(c)
    \/ \E c \in TodoReqs : UpdateTodoControllerWrite(c)
    \/ \E c \in TodoReqs : CompleteTodoControllerWrite(c)
    \/ \E c \in TodoReqs : DeleteTodoControllerWrite(c)
    \/ \E c \in TodoReqs : CreateTodo(c)
    \/ \E c \in TodoReqs : UpdateTodo(c)
    \/ \E c \in TodoReqs : CompleteTodo(c)
    \/ \E c \in TodoReqs : DeleteTodo(c)

TodoSpec == TodoInit /\ [][TodoNext]_vars
\* ================================================================ claims
\* the token a request carrying the header hdr presents
PresentedToken(hdr) == TrimPrefix(hdr, Bearer \o Space)

\* the stored session rows of a token
SessionRows(tok) == {j \in jwt_tokens : j.token = tok}

\* the validator has handed the request on
Continued(q) == q.pc \in {"resolve", "logout", "profile"}

\* the step in which request r arrives and runs up to its first store call
Arrives(r) == reqs[r].pc = "idle" /\ reqs'[r].pc # "idle"

\* the step in which the validator checks the header of r and looks it up
Validates(r) == Arrives(r) /\ reqs'[r].route \in ProtectedRoutes

\* the step in which the owner of r's session is loaded
Resolves(r) ==
    /\ reqs[r].pc = (IF build = "v1" THEN "profile" ELSE "resolve")
    /\ reqs'[r].pc \notin {reqs[r].pc, "aborted"}

Answered(q, status) == q.pc = "done" /\ q.status = status

StoreUnchanged == users' = users /\ jwt_tokens' = jwt_tokens

C2_RevokedTokenAnswered401 ==
    [][\A r \in Reqs :
         (/\ Validates(r)
          /\ PresentedToken(reqs'[r].hdr) \in revoked
          /\ SessionRows(PresentedToken(reqs'[r].hdr)) = {}
          /\ ~reqs'[r].fault)
         => /\ ~reqs'[r].live
            /\ Answered(reqs'[r], 401)]_vars

\* C3: a request whose session was found expired is, unless the store fails,
\* answered 401 by the step that deletes the session, and after that step no
\* row of the session is stored.
C3_ExpiredAnswered401AndDeleted ==
    [][\A r \in Reqs :
         (/\ reqs[r].pc = "auth_delete"
          /\ reqs'[r].pc \notin {"auth_delete", "aborted"}
          /\ ~reqs'[r].fault)
         => /\ Answered(reqs'[r], 401)
            /\ \A j \in jwt_tokens' : j.id # reqs[r].jwt.id]_vars

\* C4: the validator's lookup answers 401 when the token has no session row
\* and the store did not fail, and 500 when the store failed.
C4_NotFound401StoreFailure500 ==
    [][\A r \in Reqs :
         (Validates(r) /\ reqs'[r].queried)
         => /\ (~reqs'[r].fault /\ SessionRows(reqs'[r].bearer) = {})
                  => Answered(reqs'[r], 401)
            /\ reqs'[r].fault => Answered(reqs'[r], 500)]_vars

\* the session rows that the login of q reads for its expiry check
LoginSessionRows(q) ==
    IF build = "v1"
    THEN {j \in jwt_tokens : \E u \in users : u.id = q.user.id /\ u.jwt = j.id}
    ELSE {j \in jwt_tokens : j.id = q.user.jwt}

\* the step in which the login of r compares its session's expiry with now
ChecksLoginExpiry(r) ==
    /\ reqs[r].pc = "login_jwtinfo"
    /\ reqs'[r].pc \notin {"login_jwtinfo", "aborted"}
    /\ ~reqs'[r].fault

\* C5 as stated: a session whose stored expiry equals now is not Live for
\* the validator, and is not returned as the current session by login.
C5_ExpiryEqualNowIsExpired ==
    [][\A r \in Reqs :
         /\ (/\ Validates(r)
             /\ \E j \in SessionRows(PresentedToken(reqs'[r].hdr)) : j.expires_at = now)
            => ~reqs'[r].live
         /\ (/\ ChecksLoginExpiry(r)
             /\ \E j \in LoginSessionRows(reqs[r]) : j.expires_at = now)
            => ~Answered(reqs'[r], 200)]_vars

\* C5 amended: a session whose stored expiry equals now is treated as
\* unexpired (the validator hands the request on, login returns the stored
\* token and changes nothing); only an expiry earlier than now is expired
\* (the validator and login go on to delete the session).
C5_ExpiryEqualNowIsLive ==
    [][\A r \in Reqs :
         /\ (Validates(r) /\ ~reqs'[r].fault)
            => \A j \in SessionRows(PresentedToken(reqs'[r].hdr)) :
                  /\ j.expires_at = now
                        => reqs'[r].live /\ Continued(reqs'[r]) /\ StoreUnchanged
                  /\ j.expires_at < now
                        => ~reqs'[r].live /\ reqs'[r].pc = "auth_delete"
         /\ ChecksLoginExpiry(r)
            => \A j \in LoginSessionRows(reqs[r]) :
                  /\ j.expires_at = now
                        => /\ Answered(reqs'[r], 200)
                           /\ reqs'[r].token = j.token
                           /\ StoreUnchanged
                  /\ j.expires_at < now
                        => reqs'[r].pc = "login_delete"]_vars

\* C5 witness: one request was handed on by the validator at the very
\* instant of its session's expiry while a login was answered with a stored
\* session at the instant of that session's expiry
C5_Witness ==
    \E r, s \in Reqs :
       /\ reqs[r].live /\ reqs[r].atExpiry /\ Continued(reqs[r])
       /\ reqs[s].route = "login" /\ Answered(reqs[s], 200)
       /\ reqs[s].jwt \in jwt_tokens /\ reqs[s].jwt.expires_at = now

\* the expiry carried by a token string (issuing second + Expires)
TokenExpiry(tok) ==
    IF Len(tok) = 1 /\ tok[1] > 0 THEN ((tok[1] - 1) % 100) + Expires ELSE 0

\* C6: a token that a successful register or login returned, presented
\* before its expiry and not logged out, validates to Live; and when the
\* owner of such a request is loaded while the session is still stored, the
\* identity resolved is the subject the token was issued to.
C6_IssuedTokenRoundTrip ==
    [][\A r \in Reqs :
         /\ (/\ Validates(r)
             /\ reqs'[r].hdr \in {Bearer \o Space \o t : t \in held \ revoked}
             /\ now < TokenExpiry(PresentedToken(reqs'[r].hdr))
             /\ ~reqs'[r].fault)
            => reqs'[r].live /\ Continued(reqs'[r])
         /\ (/\ Resolves(r)
             /\ reqs[r].live
             /\ reqs[r].bearer \in held
             /\ SessionRows(reqs[r].bearer) # {}
             /\ ~reqs'[r].fault)
            => /\ reqs'[r].resolved
               /\ reqs'[r].user.id = TokenSubject(reqs[r].bearer)]_vars

\* C7: validating a stored, unexpired token yields Live and changes no
\* session row and no subject row, however often it is repeated: each
\* validation leaves the store as the next validation needs it.
C7_ValidationOfLiveTokenIsPure ==
    [][\A r \in Reqs :
         (/\ Validates(r)
          /\ \E j \in SessionRows(PresentedToken(reqs'[r].hdr)) : ~(j.expires_at < now)
          /\ ~reqs'[r].fault)
         => /\ reqs'[r].live
            /\ Continued(reqs'[r])
            /\ reqs'[r].jwt \in SessionRows(PresentedToken(reqs'[r].hdr))
            /\ StoreUnchanged]_vars

\* C7 witness: two requests have validated the same token one after the
\* other, both are Live and the session row is still stored
C7_Witness ==
    \E r, s \in Reqs :
       /\ r # s
       /\ reqs[r].hdr = reqs[s].hdr
       /\ reqs[r].live /\ Continued(reqs[r])
       /\ reqs[s].live /\ Continued(reqs[s])
       /\ reqs[r].jwt \in jwt_tokens

\* the step in which the validator or the identity resolver acts on r
ValidatesOrResolves(r) ==
    \/ Validates(r)
    \/ reqs[r].pc = "auth_delete" /\ reqs'[r].pc \notin {"auth_delete", "aborted"}
    \/ Resolves(r)

\* C8: identity resolution for a Live session that does not load the owner
\* (no row, or a store failure) is answered 500.
C8_ResolutionFailureIs500 ==
    [][\A r \in Reqs :
         (Resolves(r) /\ reqs[r].live /\ ~reqs'[r].resolved)
         => Answered(reqs'[r], 500)]_vars

\* C9: no step of validation or identity resolution panics, whatever the
\* Authorization header and the store's result.
C9_ValidationNeverPanics ==
    [][\A r \in Reqs :
         ValidatesOrResolves(r)
         => /\ reqs'[r].pc # "panic"
            /\ reqs'[r].msg # "recovered panic"]_vars

\* C10: a login with an existing email and a password that does not verify
\* is answered 401 and changes nothing in the store, and a login response
\* carries a token only if the password verified.
C10_WrongPasswordAnswered401 ==
    [][\A r \in Reqs :
         /\ (/\ Arrives(r)
             /\ reqs'[r].route = "login"
             /\ reqs'[r].password # ""
             /\ ~reqs'[r].fault
             /\ \E u \in users :
                   /\ u.email = reqs'[r].email
                   /\ ~CompareEncryptedPassword(u.password, reqs'[r].password))
            => Answered(reqs'[r], 401) /\ StoreUnchanged
         /\ (reqs'[r].route = "login" /\ reqs'[r].token # EmptyString)
            => CompareEncryptedPassword(reqs'[r].user.password, reqs'[r].password)]_vars

\* the step in which a login request arrives with both fields filled in
LoginArrives(r) ==
    /\ Arrives(r)
    /\ reqs'[r].route = "login"
    /\ reqs'[r].email # ""
    /\ reqs'[r].password # ""

\* C11: a login whose email matches no subject is, unless the store fails,
\* answered 401 (the status of a wrong password), never 404.
C11_UnknownEmailAnswered401 ==
    [][\A r \in Reqs :
         (/\ LoginArrives(r)
          /\ ~reqs'[r].fault
          /\ \A u \in users : u.email # reqs'[r].email)
         => Answered(reqs'[r], 401)]_vars

\* the step in which the login of r is answered 200
LoginSucceeds(r) ==
    /\ reqs[r].pc # "done"
    /\ reqs'[r].route = "login"
    /\ Answered(reqs'[r], 200)

RegisterArrives(r) ==
    /\ Arrives(r)
    /\ reqs'[r].route = "register"
    /\ reqs'[r].name # "" /\ reqs'[r].email # "" /\ reqs'[r].password # ""

\* no request other than r is being served
Alone(r) == \A s \in Reqs \ {r} : reqs[s].pc = "idle"

\* C13: a registration that arrives after another one has stored a subject
\* with the same email is, unless the store fails, rejected with status 400
\* or 409 and stores no subject row and no session row.
C13_SecondRegistrationIsConflict ==
    [][\A r \in Reqs :
         (/\ RegisterArrives(r)
          /\ Alone(r)
          /\ ~reqs'[r].fault
          /\ \E u \in users : u.email = reqs'[r].email)
         => /\ reqs'[r].pc = "done"
            /\ reqs'[r].status \in {400, 409}
            /\ StoreUnchanged]_vars

\* C14: in every reachable state at most one subject row exists per email.
C14_EmailUnique ==
    \A u1, u2 \in users : u1.email = u2.email => u1 = u2

\* C14 witness: two registrations for one email had both passed the count
\* pre-check; one has stored its subject and the insert of the other was
\* refused by the store
C14_Witness ==
    \E r, s \in Reqs :
       /\ r # s
       /\ reqs[r].route = "register" /\ reqs[s].route = "register"
       /\ reqs[r].email = reqs[s].email
       /\ reqs[r].pc = "issue" /\ reqs[r].user \in users
       /\ reqs[s].pc = "done" /\ reqs[s].msg = "Error creating user"
       /\ ~reqs[s].fault

\* C15: a registration with an empty name, email or password is answered
\* 400 in the step in which it arrives, without a store call, and the store
\* is unchanged.
C15_EmptyFieldRejectedBeforeStore ==
    [][\A r \in Reqs :
         (/\ Arrives(r)
          /\ reqs'[r].route = "register"
          /\ (reqs'[r].name = "" \/ reqs'[r].email = "" \/ reqs'[r].password = ""))
         => /\ Answered(reqs'[r], 400)
            /\ ~reqs'[r].fault
            /\ StoreUnchanged]_vars

\* C16: a protected handler (logout, profile) runs in a request only after
\* the validator reached Live in that request, and a handler that reads the
\* resolved subject from the request context (the profile handlers of v2
\* and v3) runs only after the identity resolver has stored it.
C16_HandlersRunAfterValidation ==
    \A r \in Reqs :
       /\ reqs[r].pc \in {"logout", "profile"}
             => reqs[r].live /\ reqs[r].route = reqs[r].pc
       /\ (reqs[r].pc = "profile" /\ build # "v1") => reqs[r].resolved
       /\ (reqs[r].pc = "done" /\ reqs[r].route \in ProtectedRoutes
           /\ reqs[r].status = 200) => reqs[r].live

\* C16 witness: the profile handler of v2 is about to run with the subject
\* that the resolver stored
C16_Witness ==
    \E r \in Reqs :
       /\ build = "v2"
       /\ reqs[r].pc = "profile"
       /\ reqs[r].live /\ reqs[r].resolved
       /\ reqs[r].user \in users

\* the header is present but is not the scheme Bearer and one more part
Malformed(hdr) ==
    /\ hdr # EmptyString
    /\ (Len(Split(hdr)) # 2 \/ Split(hdr)[1] # Bearer)

\* C17: an Authorization header that does not split into exactly two
\* space-separated parts, or whose first part is not Bearer, is answered 401.
C17_MalformedHeaderAnswered401 ==
    [][\A r \in Reqs :
         (Validates(r) /\ Malformed(reqs'[r].hdr) /\ ~reqs'[r].fault)
         => Answered(reqs'[r], 401)]_vars

\* C18: the header "Bearer " (the scheme followed by an empty token) is
\* answered 401 without a lookup in the session store.
C18_EmptyTokenRejectedWithoutLookup ==
    [][\A r \in Reqs :
         (Validates(r) /\ reqs'[r].hdr = Bearer \o Space)
         => /\ Answered(reqs'[r], 401)
            /\ ~reqs'[r].queried]_vars

\* C19: a request to a protected route with no Authorization header is
\* answered 401.
C19_MissingHeaderAnswered401 ==
    [][\A r \in Reqs :
         (Validates(r) /\ reqs'[r].hdr = EmptyString)
         => Answered(reqs'[r], 401)]_vars

\* C20: when the validator's delete of an expired session fails with a
\* store error, the request is still answered 401.
C20_FailedCleanupStillAnswered401 ==
    [][\A r \in Reqs :
         (/\ reqs[r].pc = "auth_delete"
          /\ reqs'[r].pc \notin {"auth_delete", "aborted"}
          /\ reqs'[r].fault)
         => /\ Answered(reqs'[r], 401)
            /\ StoreUnchanged]_vars

\* the session rows that subject u currently refers to: through users.jwt,
\* and in v3 through jwt_tokens.user_id
SessionsOf(u) ==
    IF build = "v3"
    THEN {j \in jwt_tokens : j.user_id = u.id}
    ELSE {j \in jwt_tokens : j.id = u.jwt}

\* C21: in every reachable state each stored session row is the current
\* session of exactly one subject, and no subject has two session rows.
C21_OneSessionPerSubject ==
    /\ \A j \in jwt_tokens :
          Cardinality({u \in users : j \in SessionsOf(u)}) = 1
    /\ \A j1, j2 \in jwt_tokens :
          TokenSubject(j1.token) = TokenSubject(j2.token) => j1 = j2

\* C22: when two requests have found the same session expired, the step in
\* which either of them deletes it (the store not failing) answers 401, also
\* when the other has deleted the row already, and the row is absent after.
C22_ConcurrentExpiredBoth401 ==
    [][\A r \in Reqs :
         (/\ reqs[r].pc = "auth_delete"
          /\ reqs'[r].pc \notin {"auth_delete", "aborted"}
          /\ ~reqs'[r].fault
          /\ \/ \E s \in Reqs \ {r} :
                   reqs[s].pc = "auth_delete" /\ reqs[s].jwt.id = reqs[r].jwt.id
             \/ reqs[r].jwt \notin jwt_tokens)
         => /\ Answered(reqs'[r], 401)
            /\ ~reqs'[r].live
            /\ \A j \in jwt_tokens' : j.id # reqs[r].jwt.id]_vars

\* the subjects among us whose current-session reference is the row j
Owners(us, j) ==
    IF build = "v3"
    THEN {u \in us : u.id = j.user_id}
    ELSE {u \in us : u.jwt = j.id}

\* C23: a session row is stored only by a step after which its owner's
\* current-session reference points to it, and a subject's reference moves
\* to a session only in the step that stores that session's row.
C23_IssuanceAtomicWithReference ==
    [][/\ \A j \in jwt_tokens' \ jwt_tokens : Owners(users', j) # {}
       /\ \A u \in users' :
             (u.jwt # 0 /\ \A v \in users : v.id = u.id => v.jwt # u.jwt)
             => \E j \in jwt_tokens' \ jwt_tokens : j.id = u.jwt]_vars

\* C24: when a login is answered 200 while the subject row it read is still
\* the stored one and refers to a session that expires later than now, the
\* answering step stores nothing and returns the token of that session.
C24_LoginReusesUnexpiredSession ==
    [][\A r \in Reqs :
         (/\ LoginSucceeds(r)
          /\ reqs[r].user \in users
          /\ \E j \in SessionsOf(reqs[r].user) : j.expires_at > now)
         => /\ StoreUnchanged
            /\ \E j \in SessionsOf(reqs[r].user) : reqs'[r].token = j.token]_vars

\* C25: a request whose Authorization header is missing or malformed ends in
\* the step that checks the header, without a lookup in the session store
\* and without a change of the store.
C25_HeaderFailureTouchesNoStore ==
    [][\A r \in Reqs :
         (/\ Validates(r)
          /\ (reqs'[r].hdr = EmptyString \/ Malformed(reqs'[r].hdr)))
         => /\ ~reqs'[r].queried
            /\ Terminal(reqs'[r])
            /\ StoreUnchanged]_vars

\* the step in which the issuing request r tries to store a session row
Issues(r) ==
    /\ reqs[r].pc \in {"issue", "login_reissue", "reg_jwt"}
    /\ reqs'[r].pc \notin {reqs[r].pc, "aborted"}

\* C26: an attempt to store a session row fails only when the store fails
\* (never on the unique token column), and the token string it stores was
\* never stored before: it is neither a token returned earlier nor a token
\* that a logout has revoked.
C26_IssuedTokenIsFresh ==
    [][\A r \in Reqs :
         (Issues(r) /\ ~reqs'[r].fault)
         => /\ jwt_tokens' \ jwt_tokens # {}
            /\ \A j \in jwt_tokens' \ jwt_tokens :
                  j.token \notin held \cup revoked]_vars

\* C27: no login that names a stored subject's email with that subject's
\* password is answered 404, whatever other requests ran in between.
C27_GoodLoginNeverNotFound ==
    \A r \in Reqs :
       (/\ reqs[r].route = "login"
        /\ \E u \in users :
              /\ u.email = reqs[r].email
              /\ CompareEncryptedPassword(u.password, reqs[r].password))
       => ~Answered(reqs[r], 404)

\* the step in which the registration r, having stored a row, is answered
\* with an error
RegisterFailsLate(r) ==
    /\ reqs[r].route = "register"
    /\ reqs[r].pc \in {"issue", "reg_user"}
    /\ reqs'[r].pc = "done"
    /\ reqs'[r].status >= 400

\* C28: when a registration is answered with an error, neither the subject
\* row nor the session row that the request stored is in the store.
C28_FailedRegistrationLeavesNothing ==
    [][\A r \in Reqs :
         RegisterFailsLate(r)
         => /\ \A u \in users' : u.id # reqs[r].user.id
            /\ \A j \in jwt_tokens' : j.id # reqs[r].jwt.id]_vars

\* the step in which the logout handler of r runs
LogsOut(r) ==
    /\ reqs[r].pc = "logout"
    /\ reqs'[r].pc \notin {"logout", "aborted"}

\* C29: a logout removes no session row other than the one of the token it
\* was validated with, removes that one unless the store fails, leaves every
\* subject's id, email and password digest as they were, and clears only
\* current-session references to the removed row.
C29_LogoutDeletesOnlyItsSession ==
    [][\A r \in Reqs :
         LogsOut(r)
         => /\ jwt_tokens' \subseteq jwt_tokens
            /\ \A j \in jwt_tokens \ jwt_tokens' : j.token = reqs[r].jwt.token
            /\ ~reqs'[r].fault => reqs[r].jwt \notin jwt_tokens'
            /\ Cardinality(users') = Cardinality(users)
            /\ \A u \in users : \E v \in users' :
                  /\ v.id = u.id /\ v.email = u.email /\ v.password = u.password
                  /\ \/ v.jwt = u.jwt
                     \/ v.jwt = 0 /\ u.jwt = reqs[r].jwt.id]_vars

\* C29 witness: a logout has been answered 200, its session row is gone,
\* and the session row of another subject is still stored
C29_Witness ==
    \E r \in Reqs :
       /\ reqs[r].route = "logout" /\ Answered(reqs[r], 200)
       /\ reqs[r].jwt \notin jwt_tokens
       /\ \E j \in jwt_tokens :
             TokenSubject(j.token) # TokenSubject(reqs[r].jwt.token)

\* the todo request c takes a step
CallActs(c) == calls'[c] # calls[c] /\ calls'[c].pc \notin {"idle", "aborted"}

\* C30: a todo row changes or disappears only in a step of an update,
\* complete or delete request for that todo whose resolved subject is the
\* row's owner; a step of such a request of any other subject leaves the
\* row as it was.
C30_OnlyOwnerChangesTodo ==
    [][/\ \A t \in todos :
             t \notin todos'
             => \E c \in TodoReqs :
                   /\ CallActs(c)
                   /\ calls'[c].op \in {"update", "complete", "delete"}
                   /\ calls'[c].id = t.id
                   /\ calls'[c].user = t.owner
       /\ \A c \in TodoReqs, t \in todos :
             (CallActs(c) /\ calls'[c].id = t.id /\ calls'[c].user # t.owner
              /\ calls'[c].op \in {"update", "complete", "delete"})
             => t \in todos']_vars

\* C30 witness: a todo that its owner has completed is still stored as it
\* was after a request of another subject against it has ended
C30_Witness ==
    \E t \in todos, c \in TodoReqs :
       /\ t.completed
       /\ Terminal(calls[c])
       /\ calls[c].op \in {"update", "complete", "delete"}
       /\ calls[c].id = t.id
       /\ calls[c].user # t.owner
====
